---- MODULE Spec2Model ----
(***************************************************************************)
(* GenTemplate: a Streamlit script (app.py) that splits a report template  *)
(* into sections, sends each section to a remote text generator            *)
(* (gemini_api.py), stores the replies in the session, joins them into a   *)
(* report and writes timestamped snapshot files.                           *)
(*                                                                         *)
(* Texts are sequences of tokens.  The tokens " " and "\n" are the         *)
(* whitespace characters, "SECTION" is the seven-letter marker word, "1"   *)
(* is a digit (a word character), "{x}" is a placeholder (it starts and    *)
(* ends with a non-word character); every other token is an opaque piece   *)
(* of text that starts and ends with a non-whitespace character.           *)
(***************************************************************************)
EXTENDS Integers, Sequences, FiniteSets, TLC

VARIABLES
    secret,          \* st.secrets["GEMINI_API_KEY"]: "missing", "empty" or "key"
    client_cache,    \* st.cache_resource slot of get_gemini_client
    last_call,       \* observation of the most recent generate_response call
    messages,        \* st.session_state.messages
    pc,              \* position of the script: where the last script run ended, or "gen_loop"
    df,              \* Generate handler: df
    template_text,   \* Generate handler: template_text
    sections,        \* Generate handler: sections
    i,               \* Generate handler: loop ordinal
    gen_sections,    \* Generate handler: local report_sections
    calls,           \* log of the generate_response calls of the latest Generate run
    has_report,      \* "report_sections" in st.session_state
    report_sections, \* st.session_state.report_sections
    total_sections,  \* st.session_state.total_sections
    full_report,     \* st.session_state.full_report
    section_index,   \* value of the section selectbox
    shown,           \* st.error / st.success messages of the last handler run
    files,           \* outputs_dir: file name -> content
    now              \* UTC clock, in seconds

vars == <<secret, client_cache, last_call, messages, pc, df, template_text,
          sections, i, gen_sections, calls, has_report, report_sections,
          total_sections, full_report, section_index, shown, files, now>>

-----------------------------------------------------------------------------
(* Bounds *)

MaxTemplateLen == 5
MaxChats == 2
MaxTime == 1

-----------------------------------------------------------------------------
(* Text helpers *)

None == <<"None">>

Whitespace == {" ", "\n"}

\* Tokens whose last / first character is a word character (\w).
WordTokens == {"SECTION", "1"}

RECURSIVE lstrip(_, _)
lstrip(s, chars) ==
    IF s # <<>> /\ Head(s) \in chars THEN lstrip(Tail(s), chars) ELSE s

RECURSIVE rstrip(_, _)
rstrip(s, chars) ==
    IF s # <<>> /\ s[Len(s)] \in chars
    THEN rstrip(SubSeq(s, 1, Len(s) - 1), chars)
    ELSE s

\* str.strip(): both ends, all whitespace
strip(s) == rstrip(lstrip(s, Whitespace), Whitespace)

\* str.strip("\n"): both ends, newlines only
strip_nl(s) == rstrip(lstrip(s, {"\n"}), {"\n"})

\* A join with a line break instead of a blank line.
RECURSIVE join_single(_, _)
join_single(texts, n) ==
    IF n = 0 THEN <<>>
    ELSE IF n = 1 THEN texts[1]
    ELSE join_single(texts, n - 1) \o <<"\n">> \o texts[n]

\* "\n\n".join(texts[1..n])
RECURSIVE join(_, _)
join(texts, n) ==
    IF n = 0 THEN <<>>
    ELSE IF n = 1 THEN texts[1]
    ELSE join(texts, n - 1) \o <<"\n", "\n">> \o texts[n]

-----------------------------------------------------------------------------
(* Section splitter: re.split(r'(?=\bSECTION\b)', template_text)           *)

\* The pattern without its word boundaries: (?=SECTION).
MatchStarts_unbounded(t) == {p \in 1..Len(t) : t[p] = "SECTION"}

\* Offsets p such that the pattern matches just before token p.
MatchStarts(t) ==
    {p \in 1..Len(t) :
        /\ t[p] = "SECTION"
        /\ (p = 1 \/ t[p - 1] \notin WordTokens)
        /\ (p = Len(t) \/ t[p + 1] \notin WordTokens)}

RECURSIVE re_split_from(_, _, _)
re_split_from(t, from, starts) ==
    IF starts = {} THEN <<SubSeq(t, from, Len(t))>>
    ELSE LET p == CHOOSE q \in starts : \A r \in starts : q <= r
         IN  <<SubSeq(t, from, p - 1)>> \o re_split_from(t, p, starts \ {p})

re_split(t) == re_split_from(t, 1, MatchStarts(t))

RECURSIVE strip_nonempty(_)
strip_nonempty(ps) ==
    IF ps = <<>> THEN <<>>
    ELSE IF strip(Head(ps)) # <<>>
         THEN <<strip(Head(ps))>> \o strip_nonempty(Tail(ps))
         ELSE strip_nonempty(Tail(ps))

\* sections = [s.strip() for s in re.split(...) if s.strip()]
split_sections(t) == strip_nonempty(re_split(t))

-----------------------------------------------------------------------------
(* gemini_api.py *)

InitFailedMsg == <<"Initialization failed: missing or invalid API key.">>

\* get_gemini_client() body: the value computed when the cache is empty.
resolve_client(sec, ctor_ok) ==
    IF sec # "key" THEN "none"
    ELSE IF ctor_ok THEN "client"
    ELSE "none"

\* A client resolved again on every call.
get_gemini_client_uncached(cache, sec, ctor_ok) == resolve_client(sec, ctor_ok)

\* get_gemini_client() under st.cache_resource
get_gemini_client(cache, sec, ctor_ok) ==
    IF cache = "unset" THEN resolve_client(sec, ctor_ok) ELSE cache

\* str(response)
str_response(r) ==
    IF r.has_text THEN <<"GenerateContentResponse(text=">> \o r.text \o <<")">>
    ELSE <<"GenerateContentResponse(text=None)">>

\* Lines 51-56: extract text safely.
extract_text(r) ==
    IF r.has_text /\ r.text # <<>> THEN strip(r.text) ELSE str_response(r)

\* A client without the outer handler: the exception leaves generate_response.
outer_except_missing(e) == [kind |-> "raise", value |-> e]

\* The result of an exception e reaching the outer `except Exception`.
outer_except(e) == [kind |-> "return", value |-> <<"Gemini API Error: ">> \o e]

\* Lines 35-59.  o.first is what the call with temperature/max_output_tokens
\* does, o.second what the minimal call does (made only after a TypeError).
call_model(o) ==
    IF o.first.kind = "ok"
    THEN [requests |-> 1, res |-> [kind |-> "return", value |-> extract_text(o.first)]]
    ELSE IF o.first.kind = "TypeError"
    THEN IF o.second.kind = "ok"
         THEN [requests |-> 2,
               res |-> [kind |-> "return", value |-> extract_text(o.second)]]
         ELSE [requests |-> 2, res |-> outer_except(o.second.msg)]
    ELSE [requests |-> 1, res |-> outer_except(o.first.msg)]

\* generate_response(prompt): the new cache slot, the number of remote
\* requests made, and the result (returned value or raised exception).
generate_response(cache, sec, prompt, o) ==
    LET client == get_gemini_client(cache, sec, o.ctor_ok)
    IN  IF client = "none"
        THEN [cache |-> client, prompt |-> prompt, requests |-> 0,
              kind |-> "return", value |-> InitFailedMsg]
        ELSE LET c == call_model(o)
             IN  [cache |-> client, prompt |-> prompt, requests |-> c.requests,
                  kind |-> c.res.kind, value |-> c.res.value]

-----------------------------------------------------------------------------
(* app.py: loaders *)

\* An uploaded file or a default path is "absent", "bad" (unreadable) or "ok".
load_dataframe(csv_file, csv_path) ==
    IF csv_file # "absent"
    THEN IF csv_file = "ok" THEN [df |-> <<"df">>, err |-> {}]
         ELSE [df |-> None, err |-> {"Failed to read uploaded CSV"}]
    ELSE IF csv_path # "absent"
    THEN IF csv_path = "ok" THEN [df |-> <<"df">>, err |-> {}]
         ELSE [df |-> None, err |-> {"Failed to read CSV"}]
    ELSE [df |-> None, err |-> {"CSV data not found"}]

load_template_text(template_file, template_path) ==
    IF template_file.state # "absent"
    THEN IF template_file.state = "ok" THEN [text |-> template_file.text, err |-> {}]
         ELSE [text |-> None, err |-> {"Failed to read uploaded template"}]
    ELSE IF template_path.state # "absent"
    THEN IF template_path.state = "ok" THEN [text |-> template_path.text, err |-> {}]
         ELSE [text |-> None, err |-> {"Failed to read template"}]
    ELSE [text |-> None, err |-> {"Template not found"}]

-----------------------------------------------------------------------------
(* app.py: prompts *)

fill_prompt(section) ==
    [mode |-> "fill", section |-> section, extra |-> <<"rows_json">>]

edit_prompt(custom_prompt, current_text) ==
    [mode |-> "edit", section |-> current_text, extra |-> custom_prompt]

chat_prompt(prompt) ==
    [mode |-> "chat", section |-> <<>>, extra |-> prompt]

-----------------------------------------------------------------------------
(* app.py: snapshot files *)

\* A snapshot name without its timestamp.
report_file_fixed(ts) == <<"report_", 0>>

\* outputs_dir / f"report_{ts}.txt", ts at one-second resolution
report_file(ts) == <<"report_", ts>>

\* outputs_dir / f"report_updated_{ts}.txt"
updated_file(ts) == <<"report_updated_", ts>>

\* Path.write_text: creates the file or replaces its content
write_text(fs, name, content) == (name :> content) @@ fs

-----------------------------------------------------------------------------
(* Initial state: the script has not run yet, outputs_dir is empty.       *)

Secrets == {"missing", "empty", "key"}

Init ==
    /\ secret \in Secrets
    /\ client_cache = "unset"
    /\ last_call = [cache |-> "unset", prompt |-> chat_prompt(<<>>),
                    requests |-> 0, kind |-> "none", value |-> <<>>]
    /\ messages = <<>>
    /\ pc = "idle"
    /\ df = None
    /\ template_text = None
    /\ sections = <<>>
    /\ i = 0
    /\ gen_sections = <<>>
    /\ calls = <<>>
    /\ has_report = FALSE
    /\ report_sections = <<>>
    /\ total_sections = 0
    /\ full_report = <<>>
    /\ section_index = 1
    /\ shown = {}
    /\ files = <<>>
    /\ now = 0

Idle == pc # "gen_loop"

-----------------------------------------------------------------------------
(* Chat expander, lines 30-38 *)

Chat(prompts, outcomes) ==
    /\ Idle
    /\ Len(messages) < 2 * MaxChats
    /\ \E p \in prompts, o \in outcomes :
         LET r == generate_response(client_cache, secret, chat_prompt(p), o)
             user == [role |-> "user", content |-> p]
         IN  /\ client_cache' = r.cache
             /\ last_call' = r
             /\ IF r.kind = "return"
                THEN /\ messages' = messages \o
                            <<user, [role |-> "assistant", content |-> r.value]>>
                     /\ pc' = "chat_done"
                ELSE /\ messages' = Append(messages, user)
                     /\ pc' = "chat_raised"
    /\ UNCHANGED <<secret, df, template_text, sections, i, gen_sections, calls,
                   has_report, report_sections, total_sections, full_report,
                   section_index, shown, files, now>>

-----------------------------------------------------------------------------
(* Generate Report button, lines 97-171 *)

\* Lines 98-119: load the inputs, split the template, stop on a missing input.
GenerateClick(csvs, templates) ==
    /\ Idle
    /\ \E c \in csvs, t \in templates :
         LET d == load_dataframe(c.file, c.path)
             tt == load_template_text(t.file, t.path)
             secs == split_sections(tt.text)
         IN  IF d.df = None
             THEN /\ df' = None /\ template_text' = None /\ sections' = <<>>
                  /\ shown' = d.err /\ pc' = "gen_stopped" /\ i' = 0
             ELSE IF tt.text = None \/ tt.text = <<>>
             THEN /\ df' = d.df /\ template_text' = tt.text /\ sections' = <<>>
                  /\ shown' = tt.err /\ pc' = "gen_stopped" /\ i' = 0
             ELSE IF Len(secs) = 0
             THEN /\ df' = d.df /\ template_text' = tt.text /\ sections' = secs
                  /\ shown' = {"No sections found in template"}
                  /\ pc' = "gen_stopped" /\ i' = 0
             ELSE /\ df' = d.df /\ template_text' = tt.text /\ sections' = secs
                  /\ shown' = {} /\ pc' = "gen_loop" /\ i' = 1
    /\ gen_sections' = <<>>
    /\ calls' = <<>>
    /\ UNCHANGED <<secret, client_cache, last_call, messages, has_report,
                   report_sections, total_sections, full_report, section_index,
                   files, now>>

\* The reply stored as received, without stripping its newlines.
section_text_unstripped(r) ==
    IF r.kind = "return" THEN r.value
    ELSE <<"[ERROR: Gemini API failed for this section: ">> \o r.value \o <<"]">>

\* The text stored for one loop iteration, lines 139-146.
section_text(r) ==
    strip_nl(IF r.kind = "return" THEN r.value
             ELSE <<"[ERROR: Gemini API failed for this section: ">>
                    \o r.value \o <<"]">>)

\* One iteration of the loop, lines 123-147.
GenerateSection(outcomes) ==
    /\ pc = "gen_loop"
    /\ i <= Len(sections)
    /\ \E o \in outcomes :
         LET r == generate_response(client_cache, secret, fill_prompt(sections[i]), o)
         IN  /\ client_cache' = r.cache
             /\ last_call' = r
             /\ calls' = Append(calls, [ordinal |-> i, outcome |-> o, result |-> r])
             /\ gen_sections' = Append(gen_sections, section_text(r))
    /\ i' = i + 1
    /\ UNCHANGED <<secret, messages, pc, df, template_text, sections, has_report,
                   report_sections, total_sections, full_report, section_index,
                   shown, files, now>>

\* Lines 149-171: store in the session, assemble, write the snapshot.
GenerateFinish ==
    /\ pc = "gen_loop"
    /\ i > Len(sections)
    /\ has_report' = TRUE
    /\ report_sections' = gen_sections
    /\ total_sections' = Len(sections)
    /\ full_report' = join(gen_sections, Len(sections))
    /\ files' = write_text(files, report_file(now), full_report')
    /\ shown' = {"Report generated successfully"}
    \* lines 185-187: the selectbox keeps its value only while its options stay
    /\ section_index' = IF has_report /\ total_sections = Len(sections)
                        THEN section_index ELSE 1
    /\ pc' = "gen_done"
    \* the script run is over: its locals are gone
    /\ df' = None /\ template_text' = None /\ sections' = <<>>
    /\ i' = 0 /\ gen_sections' = <<>>
    /\ UNCHANGED <<secret, client_cache, last_call, messages, calls, now>>

-----------------------------------------------------------------------------
(* Section-specific refinement, lines 176-240 *)

\* Lines 185-187: the user picks a section in the selectbox.
SelectSection ==
    /\ Idle
    /\ has_report
    /\ \E j \in 1..total_sections :
         /\ j # section_index
         /\ section_index' = j
    /\ UNCHANGED <<secret, client_cache, last_call, messages, pc, df,
                   template_text, sections, i, gen_sections, calls, has_report,
                   report_sections, total_sections, full_report, shown, files, now>>

\* A patch that writes the first entry whatever the selection.
patch_section_first(rs, j, revised_section) ==
    [rs EXCEPT ![1] = strip_nl(revised_section)]

\* Lines 219-224: patch one entry and rebuild the report.
patch_section(rs, j, revised_section) == [rs EXCEPT ![j] = strip_nl(revised_section)]

\* Regenerate Selected Section button, lines 200-240.
Regenerate(instructions, outcomes) ==
    /\ Idle
    /\ has_report
    /\ \E custom_prompt \in instructions, o \in outcomes :
         LET current_text == report_sections[section_index]
             r == generate_response(client_cache, secret,
                                    edit_prompt(custom_prompt, current_text), o)
             patched == patch_section(report_sections, section_index, r.value)
             updated_report == join(patched, total_sections)
         IN  /\ client_cache' = r.cache
             /\ last_call' = r
             /\ IF r.kind = "return"
                THEN /\ report_sections' = patched
                     /\ full_report' = updated_report
                     /\ files' = write_text(files, updated_file(now), updated_report)
                     /\ shown' = {"Section updated successfully"}
                     /\ pc' = "regen_done"
                ELSE /\ shown' = {"Gemini API failed to refine this section"}
                     /\ pc' = "regen_stopped"
                     /\ UNCHANGED <<report_sections, full_report, files>>
    /\ UNCHANGED <<secret, messages, df, template_text, sections, i, gen_sections,
                   calls, has_report, total_sections, section_index, now>>

-----------------------------------------------------------------------------
(* Environment *)

\* The UTC clock reaches the next second.
Tick ==
    /\ now < MaxTime
    /\ now' = now + 1
    /\ UNCHANGED <<secret, client_cache, last_call, messages, pc, df,
                   template_text, sections, i, gen_sections, calls, has_report,
                   report_sections, total_sections, full_report, section_index,
                   shown, files>>

\* The secrets file is edited while the process runs.
SecretChange ==
    /\ \E s \in Secrets : s # secret /\ secret' = s
    /\ UNCHANGED <<client_cache, last_call, messages, pc, df, template_text,
                   sections, i, gen_sections, calls, has_report, report_sections,
                   total_sections, full_report, section_index, shown, files, now>>

-----------------------------------------------------------------------------
(* Inputs *)

\* The marker, a word character, a whitespace character, a placeholder.
Alphabet == {"SECTION", "1", "\n", "{x}"}

\* Every template of at most MaxTemplateLen tokens.
AllTexts == UNION {[1..m -> Alphabet] : m \in 0..MaxTemplateLen}

Absent == [state |-> "absent", text |-> <<>>]
Unreadable == [state |-> "bad", text |-> <<>>]
Readable(t) == [state |-> "ok", text |-> t]

\* One dataset input for every path through load_dataframe.
SessionCsvs ==
    {[file |-> "ok", path |-> "absent"], [file |-> "bad", path |-> "ok"],
     [file |-> "absent", path |-> "ok"], [file |-> "absent", path |-> "bad"],
     [file |-> "absent", path |-> "absent"]}

\* A readable dataset, default path only.
CsvOk == {[file |-> "absent", path |-> "ok"]}

\* Uploaded templates of every shape, no default template.
AllUploads == {[file |-> Readable(t), path |-> Absent] : t \in AllTexts}

\* Representative templates: one section, two sections, blank, empty, and the
\* unreadable / missing cases of both sources.
OneSection == <<"SECTION", " ", "{x}">>
TwoSections == <<"SECTION", " ", "{x}", "\n", "SECTION", "\n", "{x}">>
SessionTemplates ==
    {[file |-> Readable(OneSection), path |-> Absent],
     [file |-> Absent, path |-> Readable(TwoSections)],
     [file |-> Readable(<<" ", "\n">>), path |-> Readable(OneSection)],
     [file |-> Readable(<<>>), path |-> Readable(OneSection)],
     [file |-> Unreadable, path |-> Readable(OneSection)],
     [file |-> Absent, path |-> Unreadable],
     [file |-> Absent, path |-> Absent]}

OkText(t) == [kind |-> "ok", has_text |-> TRUE, text |-> t, msg |-> <<>>]
NoText == [kind |-> "ok", has_text |-> FALSE, text |-> <<>>, msg |-> <<>>]
TypeErr == [kind |-> "TypeError", has_text |-> FALSE, text |-> <<>>,
            msg |-> <<"unexpected keyword argument 'temperature'">>]
Failure == [kind |-> "Error", has_text |-> FALSE, text |-> <<>>,
            msg |-> <<"503 UNAVAILABLE", "\n">>]

\* What one remote request can do.
Requests ==
    {OkText(<<"Filled">>), OkText(<<"\n", "Revised", " ">>), OkText(<<" ">>),
     OkText(<<>>), NoText, TypeErr, Failure}

\* Every behaviour of the client constructor and of the two requests.
AllOutcomes == [ctor_ok : BOOLEAN, first : Requests, second : Requests]

\* A reply, a reply after the compatibility fallback, and a failure.
SessionOutcomes ==
    {[ctor_ok |-> TRUE, first |-> OkText(<<"Filled">>), second |-> NoText],
     [ctor_ok |-> TRUE, first |-> TypeErr, second |-> OkText(<<"\n", "Revised", " ">>)],
     [ctor_ok |-> TRUE, first |-> Failure, second |-> NoText]}

\* A reply and a failure.
SnapshotOutcomes ==
    {[ctor_ok |-> TRUE, first |-> OkText(<<"Filled">>), second |-> NoText],
     [ctor_ok |-> TRUE, first |-> Failure, second |-> NoText]}

SnapshotTemplates == {[file |-> Readable(OneSection), path |-> Absent]}

Instructions == {<<"Make summary concise">>}

ChatPrompts == {<<"hello">>, <<"What are the three most popular pet names?">>}

-----------------------------------------------------------------------------
(* Specifications *)

\* One session generating and refining reports within one clock second.
Next ==
    \/ GenerateClick(SessionCsvs, SessionTemplates)
    \/ GenerateSection(SessionOutcomes)
    \/ GenerateFinish
    \/ SelectSection
    \/ Regenerate(Instructions, SessionOutcomes)
    \/ SecretChange

Spec == Init /\ [][Next]_vars

\* The Generate handler loading and splitting templates of every shape.
SplitNext == GenerateClick(CsvOk, AllUploads)

SplitSpec == Init /\ [][SplitNext]_vars

\* The generation client under every behaviour of the remote service.
ClientNext ==
    \/ Chat(ChatPrompts, AllOutcomes)
    \/ SecretChange

ClientSpec == Init /\ [][ClientNext]_vars

\* Snapshot files over several clock seconds.
SnapshotNext ==
    \/ GenerateClick(CsvOk, SnapshotTemplates)
    \/ GenerateSection(SnapshotOutcomes)
    \/ GenerateFinish
    \/ Regenerate(Instructions, SnapshotOutcomes)
    \/ Tick

SnapshotSpec == Init /\ [][SnapshotNext]_vars

-----------------------------------------------------------------------------
(* Properties of the generation client (ClientSpec) *)

\* C1: generate_response never raises: whatever the credential, the client
\* constructor and the two remote requests do, the call returns and the
\* caller goes on (the chat run ends with the assistant's message stored).
C1_NeverRaises ==
    /\ last_call.kind \in {"none", "return"}
    /\ pc # "chat_raised"
    /\ pc = "chat_done" =>
          /\ messages # <<>>
          /\ messages[Len(messages)] =
                [role |-> "assistant", content |-> last_call.value]

\* The minimal-argument retry was made and failed too, and the call returned.
C1_Witness ==
    /\ pc = "chat_done"
    /\ last_call.requests = 2
    /\ last_call.kind = "return"
    /\ last_call.value = <<"Gemini API Error: ">> \o Failure.msg

\* C8: the client is resolved once; once the resolution has found no usable
\* credential, every later call returns the fixed string, makes no remote
\* request and does not raise, whatever the secret has become since.
C8_CachedMissingCredential ==
    [][/\ client_cache # "unset" => client_cache' = client_cache
       /\ (client_cache = "none" /\ messages' # messages) =>
             /\ last_call'.kind = "return"
             /\ last_call'.value = InitFailedMsg
             /\ last_call'.requests = 0
             /\ messages' = messages \o
                   <<messages'[Len(messages) + 1],
                     [role |-> "assistant", content |-> InitFailedMsg]>>]_vars

\* Two calls were answered with the fixed string although the key is there now.
C8_Witness ==
    /\ client_cache = "none"
    /\ secret = "key"
    /\ Len(messages) = 4
    /\ messages[2].content = InitFailedMsg
    /\ messages[4].content = InitFailedMsg
    /\ last_call.requests = 0

-----------------------------------------------------------------------------
(* Properties of the section splitter (SplitSpec) *)

\* The Generate handler has loaded a template and split it.
Splitted == pc \in {"gen_loop", "gen_stopped"} /\ template_text # None

\* Token p of t is the marker standing as a whole word.
MarkerAt(t, p) ==
    /\ t[p] = "SECTION"
    /\ p > 1 => t[p - 1] \notin {"SECTION", "1"}
    /\ p < Len(t) => t[p + 1] \notin {"SECTION", "1"}

Markers(t) == {p \in 1..Len(t) : MarkerAt(t, p)}

\* The n-th smallest element of a set of numbers.
Nth(S, n) == CHOOSE p \in S : Cardinality({q \in S : q < p}) = n - 1

\* The region opened by the n-th marker: up to, not including, the next one.
Region(t, n) ==
    LET ms == Markers(t)
        last == IF n < Cardinality(ms) THEN Nth(ms, n + 1) - 1 ELSE Len(t)
    IN  SubSeq(t, Nth(ms, n), last)

\* The text before the first marker.
Preamble(t) ==
    IF Markers(t) = {} THEN t ELSE SubSeq(t, 1, Nth(Markers(t), 1) - 1)

\* C2 as stated: the sections are exactly the trimmed regions opened by the
\* k markers, in template order.
C2_Original ==
    Splitted =>
        LET k == Cardinality(Markers(template_text))
        IN  /\ Len(sections) = k
            /\ \A n \in 1..k :
                  sections[n] = rstrip(lstrip(Region(template_text, n),
                                              {" ", "\n"}), {" ", "\n"})

\* C2 amended: the sections are the trimmed text before the first marker, when
\* it is not blank, followed by the trimmed regions opened by the k markers, in
\* template order; no section is blank and the loop numbers them 1..Len.
C2_SplitSections ==
    Splitted =>
        LET k == Cardinality(Markers(template_text))
            pre == rstrip(lstrip(Preamble(template_text), {" ", "\n"}), {" ", "\n"})
            lead == IF pre = <<>> THEN 0 ELSE 1
        IN  /\ Len(sections) = k + lead
            /\ lead = 1 => sections[1] = pre
            /\ \A n \in 1..k :
                  sections[n + lead] =
                      rstrip(lstrip(Region(template_text, n), {" ", "\n"}),
                             {" ", "\n"})
            /\ \A n \in 1..Len(sections) :
                  sections[n] # <<>> /\ sections[n][1] \notin {" ", "\n"}
            /\ pc = "gen_loop" => i = 1 /\ Len(sections) > 0

\* Two marker regions after a blank preamble, the first one trimmed.
C2_Witness ==
    /\ pc = "gen_loop"
    /\ template_text = <<"\n", "SECTION", "{x}", "\n", "SECTION">>
    /\ sections = << <<"SECTION", "{x}">>, <<"SECTION">> >>

\* Every line of t is a numbered header: SECTION, a digit, and other text.
NumberedHeaders(t) ==
    /\ t # <<>>
    /\ t[1] = "SECTION"
    /\ \A p \in 1..Len(t) :
          /\ t[p] = "SECTION" =>
                /\ p < Len(t) /\ t[p + 1] = "1"
                /\ p > 1 => t[p - 1] = "\n"
          /\ t[p] = "\n" => p < Len(t) /\ t[p + 1] = "SECTION"

\* C9: a template of numbered headers SECTION1 .. SECTIONk is split into one
\* section per header, each starting at its header.
C9_NumberedHeaders ==
    (Splitted /\ NumberedHeaders(template_text)) =>
        LET hs == {p \in 1..Len(template_text) : template_text[p] = "SECTION"}
        IN  /\ Len(sections) = Cardinality(hs)
            /\ \A n \in 1..Len(sections) : sections[n][1] = "SECTION"

-----------------------------------------------------------------------------
(* Properties of the Generate handler (Spec) *)

\* C3: a Generate run without a dataset, without a template or with a template
\* of zero sections shows an error message and stops before any remote call;
\* a run that reaches the loop has all three.
C3_HaltsWithMessage ==
    /\ pc = "gen_stopped" => shown # {} /\ calls = <<>>
    /\ pc = "gen_loop" => df # None /\ template_text # None /\ sections # <<>>

\* What the text of a remote reply becomes once trimmed.
Trimmed(t) == rstrip(lstrip(t, {" ", "\n"}), {" ", "\n"})

\* The remote request(s) of logged call c ended in an exception.
Failed(c) ==
    /\ c.result.requests > 0
    /\ \/ c.outcome.first.kind = "Error"
       \/ c.outcome.first.kind = "TypeError" /\ c.outcome.second.kind # "ok"

\* The exception that ended the remote request(s) of logged call c.
FailureOf(c) ==
    IF c.outcome.first.kind = "Error" THEN c.outcome.first.msg
    ELSE c.outcome.second.msg

\* The remote response that logged call c received.
ReplyOf(c) ==
    IF c.outcome.first.kind = "ok" THEN c.outcome.first ELSE c.outcome.second

\* The text the run must hold for logged call c.
Expected(c) ==
    IF c.result.requests = 0 THEN InitFailedMsg
    ELSE IF Failed(c)
    THEN <<"Gemini API Error: ">> \o rstrip(FailureOf(c), {"\n"})
    ELSE Trimmed(ReplyOf(c).text)

\* C4: the requests of a Generate run are made one at a time in ordinal order,
\* each for its own section; a failed request does not end the run: every
\* ordinal gets a text, the failed ordinal an error marker, every other
\* ordinal the reply to its own request.
C4_SequentialNonAborting ==
    /\ \A n \in 1..Len(calls) : calls[n].ordinal = n
    /\ pc = "gen_loop" =>
          /\ i \in 1..(Len(sections) + 1)
          /\ Len(calls) = i - 1
          /\ Len(gen_sections) = i - 1
          /\ \A n \in 1..Len(calls) :
                /\ calls[n].result.prompt.section = sections[n]
                /\ gen_sections[n] = Expected(calls[n])
    /\ pc = "gen_done" =>
          /\ Len(calls) = total_sections
          /\ DOMAIN report_sections = 1..total_sections
          /\ \A n \in 1..total_sections :
                /\ report_sections[n] = Expected(calls[n])
                /\ Failed(calls[n]) =>
                      report_sections[n][1] = "Gemini API Error: "

\* The first request failed, the second was made and its reply stored.
C4_Witness ==
    /\ pc = "gen_done"
    /\ total_sections = 2
    /\ Failed(calls[1])
    /\ report_sections[1] = <<"Gemini API Error: ", "503 UNAVAILABLE">>
    /\ ~Failed(calls[2])
    /\ report_sections[2] = <<"Revised">>

-----------------------------------------------------------------------------
(* Properties of the session report (Spec) *)

\* Number of tokens of the report before the text of ordinal n.
RECURSIVE Offset(_, _)
Offset(rs, n) == IF n = 1 THEN 0 ELSE Offset(rs, n - 1) + Len(rs[n - 1]) + 2

\* The segment of report rep at ordinal n, for section texts rs.
Segment(rep, rs, n) == SubSeq(rep, Offset(rs, n) + 1, Offset(rs, n) + Len(rs[n]))

\* rep is the texts rs[1..n] in ascending order, one blank line between them.
Assembled(rep, rs, n) ==
    /\ Len(rep) = Offset(rs, n) + Len(rs[n])
    /\ \A m \in 1..n : Segment(rep, rs, m) = rs[m]
    /\ \A m \in 2..n : rep[Offset(rs, m) - 1] = "\n" /\ rep[Offset(rs, m)] = "\n"

\* C5: whenever the session holds a report, report_sections has exactly the
\* keys 1..total_sections and full_report is their texts in ascending ordinal
\* order with one blank line between consecutive texts.
C5_ReportAssembled ==
    has_report =>
        /\ total_sections >= 1
        /\ DOMAIN report_sections = 1..total_sections
        /\ Assembled(full_report, report_sections, total_sections)

\* Both entries were regenerated after the Generate run, the second one first.
C5_Witness ==
    /\ has_report
    /\ pc = "regen_done"
    /\ total_sections = 2
    /\ section_index = 1
    /\ Len(calls) = 2
    /\ report_sections[1] # Expected(calls[1])
    /\ report_sections[2] # Expected(calls[2])
    /\ report_sections[1] # report_sections[2]

\* The step is a run of the Regenerate handler.
RegenerateStep ==
    /\ pc' \in {"regen_done", "regen_stopped"}
    /\ section_index' = section_index
    /\ secret' = secret
    /\ now' = now

\* C6: a Regenerate run on ordinal j replaces the text of j only: the other
\* texts, the number of sections and the order stay, and the report changes
\* in its j-th segment only.
C6_PatchInPlace ==
    [][RegenerateStep =>
        /\ total_sections' = total_sections
        /\ has_report'
        /\ DOMAIN report_sections' = DOMAIN report_sections
        /\ \A n \in 1..total_sections :
              n # section_index =>
                 /\ report_sections'[n] = report_sections[n]
                 /\ Segment(full_report', report_sections', n) =
                       Segment(full_report, report_sections, n)
        /\ pc' = "regen_done" =>
              Segment(full_report', report_sections', section_index) =
                 rstrip(lstrip(last_call'.value, {"\n"}), {"\n"})]_vars

\* The second entry was replaced by a new reply, the first one was kept.
C6_Witness ==
    /\ pc = "regen_done"
    /\ total_sections = 2
    /\ section_index = 2
    /\ last_call.prompt.mode = "edit"
    /\ Len(calls) = 2
    /\ report_sections[1] = Expected(calls[1])
    /\ report_sections[1] = <<"Filled">>
    /\ Expected(calls[2]) = <<"Filled">>
    /\ report_sections[2] = <<"Revised">>
    /\ full_report = <<"Filled", "\n", "\n", "Revised">>

\* C10: when the remote request of a Regenerate run fails, the run reports
\* the failure and changes nothing: the texts, the report and the snapshot
\* files stay, and no success message is shown.
C10_FailedRegenerateKeepsAll ==
    [][(RegenerateStep /\ last_call'.requests > 0
                       /\ last_call'.value[1] = "Gemini API Error: ") =>
        /\ report_sections' = report_sections
        /\ full_report' = full_report
        /\ files' = files
        /\ "Section updated successfully" \notin shown'
        /\ shown' # {}]_vars

-----------------------------------------------------------------------------
(* Properties of the snapshot files (SnapshotSpec) *)

\* The step completes a Generate or a Regenerate run.
GenerateDone == pc = "gen_loop" /\ pc' = "gen_done"
RegenerateDone == RegenerateStep /\ pc' = "regen_done"

\* C7 as stated: every completed event adds one snapshot file and no step
\* changes or removes a snapshot that exists.
C7_Original ==
    [][/\ \A f \in DOMAIN files : f \in DOMAIN files' /\ files'[f] = files[f]
       /\ (GenerateDone \/ RegenerateDone) =>
             Cardinality(DOMAIN files') = Cardinality(DOMAIN files) + 1]_vars

\* C7 amended: every completed event writes the report to the file named by
\* its kind and the clock second; no snapshot is ever removed, none of another
\* kind or another second is changed, and the event adds exactly one file
\* unless an event of its kind has already completed in the same second.
C7_SnapshotsKept ==
    [][/\ \A f \in DOMAIN files :
             /\ f \in DOMAIN files'
             /\ files'[f] # files[f] =>
                   /\ f[2] = now
                   /\ \/ GenerateDone /\ f[1] = "report_"
                      \/ RegenerateDone /\ f[1] = "report_updated_"
       /\ GenerateDone =>
             /\ <<"report_", now>> \in DOMAIN files'
             /\ files'[<<"report_", now>>] = full_report'
             /\ DOMAIN files' = DOMAIN files \cup {<<"report_", now>>}
       /\ RegenerateDone =>
             /\ <<"report_updated_", now>> \in DOMAIN files'
             /\ files'[<<"report_updated_", now>>] = full_report'
             /\ DOMAIN files' = DOMAIN files \cup {<<"report_updated_", now>>}
       /\ ~(GenerateDone \/ RegenerateDone) => files' = files]_vars

\* A later Generate run and a Regenerate run left the first snapshot as written.
C7_Witness ==
    /\ DOMAIN files = {<<"report_", 0>>, <<"report_", 1>>, <<"report_updated_", 1>>}
    /\ files[<<"report_", 0>>] = <<"Filled">>
    /\ files[<<"report_", 1>>] = <<"Gemini API Error: ", "503 UNAVAILABLE">>
    /\ files[<<"report_updated_", 1>>] = <<"Filled">>
    /\ now = 1

====
